---- MODULE Spec2Model ----
(***************************************************************************)
(* Model of src/relay/transforms/annotate_texture_storage.cc: the texture  *)
(* storage-scope analysis (StorageInfo), the rewriter                      *)
(* (RewriteVDStorageScopes) and the pass entry (AnnotateMemoryScopeExpr).  *)
(*                                                                         *)
(* Strings that the code inspects with std::string::find are modelled as   *)
(* sequences of one-character strings, so that find, == and += act on the  *)
(* characters as they do in the code.  Layout attributes, which the code   *)
(* only compares for equality, stay TLA+ strings.                          *)
(***************************************************************************)
EXTENDS Integers, Sequences, FiniteSets, TLC

\* ------------------------------------------------------------------ bounds
\* Largest dimension of a shape handed to Scope in the pure-function harness.
MaxDim == 4
\* Longest consumer-demand list handed to GetConsumerScope / CanConsumeTextures
\* in the pure-function harness.
MaxDemand == 3
\* Number of expression nodes of the analysed graph (primitive function
\* bodies and parameters not counted).
NumNodes == 3
\* Number of fields of a tuple-typed call result.
NumFields == 2

\* ------------------------------------------------------- strings, as chars
EmptyStr == << >>
GlobalStr == <<"g", "l", "o", "b", "a", "l">>
\* std::string texture_tag = "global.texture"
TextureTag == GlobalStr \o <<".", "t", "e", "x", "t", "u", "r", "e">>
NhwcStr == <<"n", "h", "w", "c">>
WeightStr == <<"w", "e", "i", "g", "h", "t">>
DashStr == <<"-">>

\* std::string::npos
NPOS == -1

SetMin(S) == CHOOSE x \in S : \A y \in S : x <= y

\* std::string::find(needle): position (from 0) of the first occurrence, or npos
Find(hay, needle) ==
  LET at == {i \in 0..(Len(hay) - Len(needle)) :
               SubSeq(hay, i + 1, i + Len(needle)) = needle}
  IN IF at = {} THEN NPOS ELSE SetMin(at)

\* ------------------------------------------------------- virtual devices
\* A target: its kind name, its "device" attribute and its optional
\* "texture_spatial_limit" attribute (0 stands for: attribute not set).
NullTarget == [kind |-> "", device |-> "", texture_spatial_limit |-> 0]
AdrenoTarget(limit) ==
  [kind |-> "opencl", device |-> "adreno", texture_spatial_limit |-> limit]

\* VirtualDevice::FullyUnconstrained()
FullyUnconstrained ==
  [device_type |-> "invalid", virtual_device_id |-> -1,
   target |-> NullTarget, memory_scope |-> EmptyStr]

\* VirtualDevice(device_type, virtual_device_id, target, memory_scope)
VirtualDevice(dt, id, target, scope) ==
  [device_type |-> dt, virtual_device_id |-> id,
   target |-> target, memory_scope |-> scope]

\* .value_or(Integer(16384))
DefaultSpatialLimit == 16384

\* vd->target->GetAttr<Integer>("texture_spatial_limit").value_or(Integer(16384))
SpatialLimit(vd) ==
  IF vd.target.texture_spatial_limit = 0
    THEN DefaultSpatialLimit
    ELSE vd.target.texture_spatial_limit

\* ------------------------------------------------------------------ Scope
\* A faulty variant of AbsDiff: the difference without the absolute value.
AbsDiffMut(l, r) == l - r

\* d3l > d3r ? d3l - d3r : d3r - d3l
AbsDiff(l, r) == IF l > r THEN l - r ELSE r - l

\* diffs[key] = label on a std::map<int, std::string>
MapPut(m, key, label) ==
  [k \in (DOMAIN m) \cup {key} |-> IF k = key THEN label ELSE m[k]]

\* if (l < limit && r < limit) diffs[diff] = label;
PutIfFits(diffs, l, r, limit, label) ==
  IF l < limit /\ r < limit
    THEN MapPut(diffs, AbsDiff(l, r), label)
    ELSE diffs

\* A faulty variant of ScopeGuard: the guard without the test of the last dimension.
ScopeGuardMut(shape, vd) ==
  vd # FullyUnconstrained /\ Len(shape) = 5

\* The guard of Scope: textures are made only from 5d tensors with 4 in the
\* last dimension, on a constrained device.
ScopeGuard(shape, vd) ==
  vd # FullyUnconstrained /\ Len(shape) = 5 /\ shape[5] = 4

\* A faulty variant of ScopeDiffs: the candidates tried in the reverse order.
ScopeDiffsMut(shape, limit) ==
  LET a0 == shape[1]
      a1 == shape[2]
      a2 == shape[3]
      a3 == shape[4]
      m1 == PutIfFits(<< >>, a0, a1 * a2 * a3, limit, WeightStr)
      m2 == PutIfFits(m1, a0 * a1, a2 * a3, limit, NhwcStr)
      m3 == PutIfFits(m2, a0 * a1 * a2, a3, limit, EmptyStr)
  IN m3

\* The std::map diffs after the three candidate reshapes were tried, in the
\* order of the code. Dimensions are bounded (MaxDim, the shapes of
\* the node templates) so that no product leaves the range of int.
ScopeDiffs(shape, limit) ==
  LET a0 == shape[1]
      a1 == shape[2]
      a2 == shape[3]
      a3 == shape[4]
      m3 == PutIfFits(<< >>, a0 * a1 * a2, a3, limit, EmptyStr)
      m2 == PutIfFits(m3, a0 * a1, a2 * a3, limit, NhwcStr)
      m1 == PutIfFits(m2, a0, a1 * a2 * a3, limit, WeightStr)
  IN m1

\* StorageInfo::Scope
Scope(shape, vd) ==
  IF ScopeGuard(shape, vd)
    THEN LET diffs == ScopeDiffs(shape, SpatialLimit(vd))
         IN IF DOMAIN diffs # {}
              THEN LET first == diffs[SetMin(DOMAIN diffs)]
                   IN IF first # EmptyStr
                        THEN TextureTag \o DashStr \o first
                        ELSE TextureTag
              ELSE GlobalStr
    ELSE GlobalStr

\* ------------------------------------------------- demand list functions
\* A faulty variant of GetConsumerScope: one texture entry is enough.
GetConsumerScopeMut(consumer_scopes) ==
  IF Len(consumer_scopes) = 0
    THEN GlobalStr
    ELSE IF \A i \in 1..Len(consumer_scopes) :
              Find(consumer_scopes[i], TextureTag) = NPOS
           THEN GlobalStr
           ELSE TextureTag

\* StorageInfo::GetConsumerScope
GetConsumerScope(consumer_scopes) ==
  IF Len(consumer_scopes) = 0
    THEN GlobalStr
    ELSE IF \E i \in 1..Len(consumer_scopes) :
              Find(consumer_scopes[i], TextureTag) = NPOS
           THEN GlobalStr
           ELSE TextureTag

\* StorageInfo::CanConsumeTextures
CanConsumeTextures(consumer_scopes) ==
  \E i \in 1..Len(consumer_scopes) : Find(consumer_scopes[i], TextureTag) = 0

\* ------------------------------------------------- SupportsTextureStorage
\* Attribute bags of calls: the attrs type and the layout strings it holds.
Conv2DAttrs(data_layout, kernel_layout) ==
  [type |-> "Conv2DAttrs", data_layout |-> data_layout,
   kernel_layout |-> kernel_layout, layout |-> ""]
Conv2DWinogradAttrs(data_layout, kernel_layout) ==
  [type |-> "Conv2DWinogradAttrs", data_layout |-> data_layout,
   kernel_layout |-> kernel_layout, layout |-> ""]
PoolAttrs(type, layout) ==
  [type |-> type, data_layout |-> "", kernel_layout |-> "", layout |-> layout]
NoAttrs == [type |-> "", data_layout |-> "", kernel_layout |-> "", layout |-> ""]

\* StorageInfo::SupportsTextureStorage, on call->attrs
SupportsTextureStorage(attrs) ==
  IF attrs.type = "Conv2DAttrs"
    THEN \/ attrs.data_layout = "NCHW4c" /\ attrs.kernel_layout = "OIHW4o"
         \/ /\ attrs.data_layout = "NHWC4c"
            /\ attrs.kernel_layout \in {"HWOI4o", "HWIO4o", "OIHW4o"}
    ELSE IF attrs.type = "Conv2DWinogradAttrs"
      THEN /\ attrs.data_layout \in {"NCHW4c", "NHWC4c"}
           /\ attrs.kernel_layout \in {"OIHW4o", "HWIO4o"}
      ELSE IF attrs.type \in {"GlobalPool2DAttrs", "MaxPool2DAttrs", "AvgPool2DAttrs"}
        THEN attrs.layout = "NCHW4c"
        ELSE FALSE


\* ------------------------------------------------------- expression graph
\* Identities of expression nodes. The analysed expression holds the nodes
\* Node(1) .. Node(k); a call into an inlined primitive function also owns
\* the function's body and its formal parameters; OnDeviceOf(n) is the
\* on_device annotation call wrapped around node n by the rewriter.
Node(i) == <<"node", i, 0>>
Body(c) == <<"body", c[2], 0>>
Param(c, j) == <<"param", c[2], j>>
OnDeviceOf(n) == <<"on_device", n[2], n[3]>>

\* Shapes of the tensors of the analysed graphs.
ConvShape == <<1, 4, 8, 8, 4>>
LiteralShape == <<1, 1, 1, 1, 4>>
FlatShape == <<1, 4, 8, 8>>

ConvNCHW4c == Conv2DAttrs("NCHW4c", "OIHW4o")
ConvNCHW == Conv2DAttrs("NCHW", "OIHW")

\* A leaf: a Var (Reference) or a Constant (Literal) of tensor type.
Leaf(kind, shape) ==
  [kind |-> kind, op |-> "", args |-> << >>, body_calls |-> << >>,
   attrs |-> NoAttrs, tensor |-> TRUE, shape |-> shape, fields |-> 0]

\* A call. op is "Function" for a call into an inlined function marked
\* Primitive and "Op" for a call of an operator; body_calls holds the attrs
\* of the calls inside the function body, in the order the visitor reaches
\* them; the result type is a tensor of the shape, or a tuple of fields.
CallNode(op, body_calls, attrs, tensor, shape, fields) ==
  [kind |-> "Call", op |-> op, args |-> << >>, body_calls |-> body_calls,
   attrs |-> attrs, tensor |-> tensor, shape |-> shape, fields |-> fields]

LeafTemplates ==
  { Leaf("Var", ConvShape), Leaf("Var", FlatShape),
    Leaf("Constant", LiteralShape), Leaf("Constant", FlatShape) }

CallTemplates ==
  { CallNode("Op", << >>, ConvNCHW4c, TRUE, ConvShape, 0),
    CallNode("Function", <<ConvNCHW>>, NoAttrs, TRUE, ConvShape, 0),
    CallNode("Function", <<ConvNCHW4c>>, NoAttrs, TRUE, ConvShape, 0),
    CallNode("Function", <<ConvNCHW4c>>, NoAttrs, TRUE, FlatShape, 0),
    CallNode("Function", <<ConvNCHW4c>>, NoAttrs, FALSE, << >>, NumFields),
    CallNode("Function", <<NoAttrs, PoolAttrs("MaxPool2DAttrs", "NCHW4c")>>,
             NoAttrs, TRUE, ConvShape, 0) }

\* Argument lists of node i of a graph of k nodes: at most two distinct
\* nodes among the later ones, in either order.
ArgLists(i, k) ==
  LET later == {Node(j) : j \in (i + 1)..k}
  IN {<< >>} \cup {<<a>> : a \in later}
       \cup {<<a, b>> : <<a, b>> \in {p \in later \X later : p[1] # p[2]}}

NodeChoices(i, k) ==
  LeafTemplates \cup
  {[t EXCEPT !.args = al] : <<t, al>> \in CallTemplates \X ArgLists(i, k)}

RECURSIVE GraphsFrom(_, _)
\* All assignments of nodes i..k.
GraphsFrom(i, k) ==
  IF i > k
    THEN {[x \in {} |-> Leaf("Var", FlatShape)]}
    ELSE {[x \in i..k |-> IF x = i THEN nd ELSE g[x]] :
            <<nd, g>> \in NodeChoices(i, k) \X GraphsFrom(i + 1, k)}

\* Every node but the root is the argument of an earlier node.
Connected(g, k) ==
  \A j \in 2..k : \E i \in 1..(j - 1) :
    \E a \in 1..Len(g[i].args) : g[i].args[a] = Node(j)

GraphsUpTo(n) == UNION {{g \in GraphsFrom(1, k) : Connected(g, k)} : k \in 1..n}

\* The virtual device every node of the input resolves to (one lexical
\* scope): none, the adreno target, or the adreno target with a memory scope
\* set by an earlier stage.
InputDevices ==
  { FullyUnconstrained,
    VirtualDevice("opencl", 0, AdrenoTarget(0), EmptyStr),
    VirtualDevice("opencl", 0, AdrenoTarget(0), GlobalStr) }


\* ------------------------------------------------------------------ state
VARIABLES
  graph,                        \* the expression: node index -> node
  top_is_function,              \* the expression is a Function whose params are the Vars
  devices,                      \* GetVirtualDevice: node -> resolved virtual device
  wrapped,                      \* nodes that stand inside an on_device annotation
  pass,                         \* which run of the pass this is
  pc,                           \* where the pass is
  stack,                        \* the call visits in progress: <<[node, i]>>
  visit_counter_,               \* ExprVisitor: the nodes already visited
  primitive_supports_texture_,
  storage_scope_,
  consumer_storage_scopes_,
  args_to_vars_,
  storage_map,                  \* the map GetStorageMap / CollectStorageInfo returns
  failed,                       \* the ICHECK that fired, or ""
  rewritten,                    \* the result of the rewrite, node by node
  first,                        \* the result of the first run
  probe                         \* input and result of a pure function applied alone

vars ==
  <<graph, top_is_function, devices, wrapped, pass, pc, stack, visit_counter_,
    primitive_supports_texture_, storage_scope_, consumer_storage_scopes_,
    args_to_vars_, storage_map, failed, rewritten, first, probe>>

inputVars == <<graph, top_is_function>>
analysisVars ==
  <<stack, visit_counter_, primitive_supports_texture_, storage_scope_,
    consumer_storage_scopes_, args_to_vars_>>

\* ------------------------------------------------ std::unordered_map, Map
EmptyMap == [x \in {} |-> << >>]
Has(m, k) == k \in DOMAIN m
\* m[k].push_back(v), creating m[k] when absent
PushBack(m, k, v) ==
  [x \in (DOMAIN m) \cup {k} |->
     IF x = k THEN (IF k \in DOMAIN m THEN Append(m[k], v) ELSE <<v>>) ELSE m[x]]
\* m.erase(k) for every k of ks
EraseAll(m, ks) == [x \in (DOMAIN m) \ ks |-> m[x]]
\* m.Set(k, v)
MapSet(m, k, v) == [x \in (DOMAIN m) \cup {k} |-> IF x = k THEN v ELSE m[x]]

RECURSIVE PushBackEach(_, _, _)
\* for (k : keys) m[k].push_back(v)
PushBackEach(m, keys, v) ==
  IF keys = << >>
    THEN m
    ELSE PushBackEach(PushBack(m, Head(keys), v), Tail(keys), v)

\* ---------------------------------------------------------- graph readers
TopIds == {Node(i) : i \in DOMAIN graph}
N(n) == graph[n[2]]
IsTop(e) == e[1] = "node"
IsCall(e) == IsTop(e) /\ N(e).kind = "Call"
\* call->op.as<FunctionNode>() with fn->HasNonzeroAttr(attr::kPrimitive)
IsPrimitiveCall(e) == IsCall(e) /\ N(e).op = "Function"
ParamsOf(c) == [j \in 1..Len(N(c).args) |-> Param(c, j)]
ParamIds == UNION {{Param(c, j) : j \in 1..Len(N(c).args)} :
                     c \in {x \in TopIds : IsPrimitiveCall(x)}}
BodyIds == {Body(c) : c \in {x \in TopIds : IsPrimitiveCall(x)}}
AllIds == TopIds \cup ParamIds \cup BodyIds

\* The expression that stands where node n is referenced: n, or the on_device
\* call around it.
ExprOf(n) == IF n \in wrapped THEN OnDeviceOf(n) ELSE n
\* The node an expression stands for (the body of an on_device call).
NodeOfExpr(e) == IF e[1] = "on_device" THEN Node(e[2]) ELSE e
\* call->args
CallArgs(c) == [a \in 1..Len(N(c).args) |-> ExprOf(N(c).args[a])]
Root == ExprOf(Node(1))

\* expr->checked_type(): parameters have the type of the argument bound to them
TypeOf(n) ==
  IF n[1] = "param"
    THEN LET a == N(Node(n[2])).args[n[3]]
         IN [tensor |-> N(a).tensor, shape |-> N(a).shape, fields |-> N(a).fields]
    ELSE [tensor |-> N(n).tensor, shape |-> N(n).shape, fields |-> N(n).fields]


\* ------------------------------------------------------------ StorageInfo
\* StorageInfo::HasMixedStorageOutputs, on a given storage_scope_
HasMixedStorageOutputs(scopes, expr) ==
  /\ Has(scopes, expr)
  /\ \E i \in 1..Len(scopes[expr]) : scopes[expr][i] # scopes[expr][1]

\* Visit(call->op) of a primitive function: the body is visited, then the
\* params. Every call of the body sets primitive_supports_texture_ from its
\* own attrs when it is visited, so the flag ends as the last of them left it;
\* it stays false when the body holds no call.
VisitPrimitive(c) ==
  LET calls == N(c).body_calls
  IN IF calls = << >> THEN FALSE ELSE SupportsTextureStorage(calls[Len(calls)])

\* A faulty variant of TupleScopes: only the first field is a texture.
TupleScopesMut(n) ==
  [i \in 1..n |-> IF i = 1 THEN TextureTag ELSE GlobalStr]

\* The scopes pushed for a tuple-typed call: one "global.texture" per field.
TupleScopes(n) == [i \in 1..n |-> TextureTag]

\* The scopes the call visit pushes for a call whose primitive supports
\* textures.
CallScopes(c) ==
  IF N(c).tensor
    THEN <<Scope(N(c).shape, devices[c])>>
    ELSE TupleScopes(N(c).fields)

RECURSIVE PushAll(_, _, _)
\* for (s : values) m[k].push_back(s)
PushAll(m, k, values) ==
  IF values = << >>
    THEN m
    ELSE PushAll(PushBack(m, k, Head(values)), k, Tail(values))

RECURSIVE BindParams(_, _, _, _)
\* for (i < fn->params.size()) args_to_vars_[call->args[i]].push_back(fn->params[i])
BindParams(m, args, params, i) ==
  IF i > Len(params)
    THEN m
    ELSE BindParams(PushBack(m, args[i], params[i]), args, params, i + 1)

\* A faulty variant of DemandOf: the entry follows the scope of the call.
DemandOfMut(scopes, c) ==
  IF Has(scopes, c) /\ Find(scopes[c][1], TextureTag) = 0
    THEN TextureTag
    ELSE GlobalStr

\* The demand entry a call records for each of its arguments.
DemandOf(scopes, c) == IF Has(scopes, c) THEN TextureTag ELSE GlobalStr

\* A faulty variant of Retracted: nothing is erased.
RetractedMut(c, demand) == {}

\* A faulty variant of Retracted: an argument keeps its scope as long as one
\* of its consumers takes textures.
RetractedAnyMut(c, demand) ==
  LET args == CallArgs(c)
      hit == {a \in 1..Len(args) :
                /\ Has(demand, args[a])
                /\ ~CanConsumeTextures(demand[args[a]])}
  IN {args[a] : a \in hit}
       \cup {Body(args[a]) : a \in {h \in hit : IsPrimitiveCall(args[h])}}

\* The keys the retraction loop of a call erases from storage_scope_.
Retracted(c, demand) ==
  LET args == CallArgs(c)
      hit == {a \in 1..Len(args) :
                /\ Has(demand, args[a])
                /\ GetConsumerScope(demand[args[a]]) # TextureTag}
  IN {args[a] : a \in hit}
       \cup {Body(args[a]) : a \in {h \in hit : IsPrimitiveCall(args[h])}}

\* A faulty variant of LeafScope: a demand that is not a texture scope is
\* not recorded on the leaf.
LeafScopeDropMut(expr, demand) ==
  LET consumer_scope == GetConsumerScope(demand[expr])
      t == TypeOf(expr)
      scope == IF t.tensor THEN Scope(t.shape, devices[expr]) ELSE EmptyStr
      expr_is_rgba_vectorizable ==
        t.tensor /\ scope # GlobalStr /\ t.shape[Len(t.shape)] = 4
  IN IF Find(consumer_scope, TextureTag) # NPOS
       THEN (IF expr_is_rgba_vectorizable THEN <<scope>> ELSE << >>)
       ELSE << >>

\* A faulty variant of LeafScope: the shape of the leaf is not tested.
LeafScopeMut(expr, demand) ==
  LET consumer_scope == GetConsumerScope(demand[expr])
      t == TypeOf(expr)
      scope == IF t.tensor THEN Scope(t.shape, devices[expr]) ELSE EmptyStr
  IN IF Find(consumer_scope, TextureTag) # NPOS
       THEN <<TextureTag>>
       ELSE <<consumer_scope>>

\* The scope StorageInfo::ApplyConsumerScopeToInputs records for a leaf that
\* has consumer demand: << >> when it records none.
LeafScope(expr, demand) ==
  LET consumer_scope == GetConsumerScope(demand[expr])
      t == TypeOf(expr)
      scope == IF t.tensor THEN Scope(t.shape, devices[expr]) ELSE EmptyStr
      expr_is_rgba_vectorizable ==
        t.tensor /\ scope # GlobalStr /\ t.shape[Len(t.shape)] = 4
  IN IF Find(consumer_scope, TextureTag) # NPOS
       THEN (IF expr_is_rgba_vectorizable THEN <<scope>> ELSE << >>)
       ELSE <<consumer_scope>>

\* StorageInfo::LegalizeProducerStorage: the legalized storage_scope_
Legalized(scopes, demand) ==
  [p \in DOMAIN scopes |->
     IF Has(demand, p) /\ Find(scopes[p][1], GetConsumerScope(demand[p])) = NPOS
       THEN [i \in 1..Len(scopes[p]) |-> GetConsumerScope(demand[p])]
       ELSE scopes[p]]

\* A faulty variant of Completed: the inputs are filled with a texture scope.
CompletedMut(map, demand) ==
  [e \in (DOMAIN map) \cup {d \in DOMAIN demand : CanConsumeTextures(demand[d])} |->
     IF Has(map, e) THEN map[e] ELSE <<TextureTag>>]

\* GetStorageMap, second loop: inputs some consumer takes as a texture and
\* that have no scope yet are filled with "global".
Completed(map, demand) ==
  [e \in (DOMAIN map) \cup {d \in DOMAIN demand : CanConsumeTextures(demand[d])} |->
     IF Has(map, e) THEN map[e] ELSE <<GlobalStr>>]

\* The argument a formal parameter is bound to in args_to_vars_, if any.
BoundTo(binds, v) == {a \in DOMAIN binds : \E i \in 1..Len(binds[a]) : binds[a][i] = v}

\* GetStorageMap, third loop: the scope of an argument is set on the vars
\* bound to it. No var is bound twice and no var is an argument, so the order
\* of the loop does not matter.
WithVars(map, binds) ==
  LET bound == {v \in ParamIds : \E a \in BoundTo(binds, v) : Has(map, a)}
  IN [e \in (DOMAIN map) \cup bound |->
        IF e \in bound
          THEN map[CHOOSE a \in BoundTo(binds, e) : Has(map, a)]
          ELSE map[e]]


\* ------------------------------------------------- CollectVirtualDevices
\* CollectVirtualDevices::GetDevices: kind name and device of the target of
\* every call with a constrained virtual device.
GetDevices ==
  {devices[c].target.kind \o "." \o devices[c].target.device :
     c \in {x \in TopIds : IsCall(x) /\ devices[x] # FullyUnconstrained
                             /\ devices[x].target.device # ""}}

\* ftarget_prefix + "._CollectStorageInfo". The graphs here hold one target,
\* so the alphabetic order of the set is the order of its only element.
RegistryKey(device_types) ==
  IF device_types = {}
    THEN "relay.backend" \o "._CollectStorageInfo"
    ELSE "relay.backend" \o "." \o (CHOOSE d \in device_types : TRUE)
           \o "._CollectStorageInfo"

\* TVM_REGISTER_GLOBAL("relay.backend.opencl.adreno._CollectStorageInfo")
Registered(key) == key = "relay.backend.opencl.adreno._CollectStorageInfo"

\* ---------------------------------------------------------------- actions
Idle == [fn |-> "", shape |-> << >>, vd |-> FullyUnconstrained,
         list |-> << >>, scope |-> << >>, can |-> FALSE, done |-> FALSE]

NoResult == [x \in {} |-> FullyUnconstrained]

Init ==
  /\ graph \in GraphsUpTo(NumNodes)
  /\ top_is_function \in BOOLEAN
  /\ \E vd \in InputDevices :
       devices = [n \in AllIds |-> vd]
  /\ wrapped = {}
  /\ pass = 1
  /\ pc = "begin"
  /\ stack = << >>
  /\ visit_counter_ = {}
  /\ primitive_supports_texture_ = FALSE
  /\ storage_scope_ = EmptyMap
  /\ consumer_storage_scopes_ = EmptyMap
  /\ args_to_vars_ = EmptyMap
  /\ storage_map = EmptyMap
  /\ failed = ""
  /\ rewritten = NoResult
  /\ first = NoResult
  /\ probe = Idle

\* CollectStorageInfo up to the registry lookup; AnnotateMemoryScopeExpr goes
\* on to the rewrite with an empty map when no analysis is registered.
CollectStorageInfo ==
  /\ pc = "begin"
  /\ IF Registered(RegistryKey(GetDevices))
       THEN pc' = "params"
       ELSE pc' = "rewrite"
  /\ UNCHANGED <<inputVars, devices, wrapped, pass, analysisVars, storage_map,
                 failed, rewritten, first, probe>>

\* GetStorageMap: storage_info.VisitExpr(expr). When the expression is a
\* Function the visitor reaches its params before its body; no demand is
\* recorded yet, so ApplyConsumerScopeToInputs leaves them without a scope.
VisitExprTop ==
  /\ pc = "params"
  /\ pc' = "visit"
  /\ visit_counter_' =
       IF top_is_function THEN {n \in TopIds : N(n).kind = "Var"} ELSE {}
  /\ UNCHANGED <<inputVars, devices, wrapped, pass, stack,
                 primitive_supports_texture_, storage_scope_,
                 consumer_storage_scopes_, args_to_vars_, storage_map, failed,
                 rewritten, first, probe>>

\* The expression the traversal visits next: the root, or the next argument
\* of the call on top of the stack.
Top == stack[Len(stack)]
AtArgument == stack # << >> /\ Top.i <= Len(N(Top.node).args)
Pending == IF stack = << >> THEN Root ELSE CallArgs(Top.node)[Top.i]

\* The visit of Pending returned: the call on top goes on to its next
\* argument, and the analysis goes on to legalization after the root.
Returned(stk) ==
  IF stk = << >>
    THEN /\ stack' = << >>
         /\ pc' = "legalize"
    ELSE /\ stack' = [stk EXCEPT ![Len(stk)].i = @ + 1]
         /\ pc' = "visit"

\* ExprVisitor::VisitExpr on a node visited before: nothing is visited again.
VisitMemo ==
  /\ pc = "visit"
  /\ stack = << >> \/ AtArgument
  /\ NodeOfExpr(Pending) \in visit_counter_
  /\ Returned(stack)
  /\ UNCHANGED <<inputVars, devices, wrapped, pass, visit_counter_,
                 primitive_supports_texture_, storage_scope_,
                 consumer_storage_scopes_, args_to_vars_, storage_map, failed,
                 rewritten, first, probe>>

\* VisitExpr_(VarNode) / VisitExpr_(ConstantNode): ApplyConsumerScopeToInputs
VisitLeaf ==
  /\ pc = "visit"
  /\ stack = << >> \/ AtArgument
  /\ LET expr == NodeOfExpr(Pending)
     IN /\ expr \notin visit_counter_
        /\ ~IsCall(expr)
        /\ visit_counter_' = visit_counter_ \cup {expr}
        /\ IF ~Has(consumer_storage_scopes_, expr)
             THEN /\ Returned(stack)
                  /\ UNCHANGED <<storage_scope_, failed>>
             ELSE IF Has(storage_scope_, expr)
               THEN /\ failed' = "Already propagated consumer scopes to input"
                    /\ pc' = "aborted"
                    /\ UNCHANGED <<stack, storage_scope_>>
               ELSE /\ storage_scope_' =
                         PushAll(storage_scope_, expr,
                                 LeafScope(expr, consumer_storage_scopes_))
                    /\ Returned(stack)
                    /\ UNCHANGED failed
  /\ UNCHANGED <<inputVars, devices, wrapped, pass,
                 primitive_supports_texture_, consumer_storage_scopes_,
                 args_to_vars_, storage_map, rewritten, first, probe>>

\* DeviceAwareVisitExpr_(CallNode), up to the loop that visits the arguments
VisitCall ==
  /\ pc = "visit"
  /\ stack = << >> \/ AtArgument
  /\ LET call == NodeOfExpr(Pending)
     IN /\ call \notin visit_counter_
        /\ IsCall(call)
        /\ LET supports == IsPrimitiveCall(call) /\ VisitPrimitive(call)
               scopes == IF supports
                           THEN PushAll(storage_scope_, call, CallScopes(call))
                           ELSE storage_scope_
               binds == IF supports
                          THEN BindParams(args_to_vars_, CallArgs(call),
                                          ParamsOf(call), 1)
                          ELSE args_to_vars_
               mixed == /\ IsPrimitiveCall(call)
                        /\ CallArgs(call) # << >>
                        /\ HasMixedStorageOutputs(scopes, call)
           IN /\ storage_scope_' = scopes
              /\ args_to_vars_' = binds
              /\ visit_counter_' =
                   IF IsPrimitiveCall(call)
                     THEN visit_counter_ \cup {Body(call)}
                            \cup {Param(call, j) : j \in 1..Len(N(call).args)}
                     ELSE visit_counter_
              /\ IF mixed
                   THEN /\ failed' = "Mixed output storage scopes are not currently supported"
                        /\ pc' = "aborted"
                        /\ UNCHANGED <<stack, consumer_storage_scopes_,
                                       primitive_supports_texture_>>
                   ELSE /\ consumer_storage_scopes_' =
                             IF IsPrimitiveCall(call)
                               THEN PushBackEach(consumer_storage_scopes_,
                                                 CallArgs(call),
                                                 DemandOf(scopes, call))
                               ELSE consumer_storage_scopes_
                        /\ primitive_supports_texture_' =
                             SupportsTextureStorage(N(call).attrs)
                        /\ stack' = Append(stack, [node |-> call, i |-> 1])
                        /\ UNCHANGED <<failed, pc>>
  /\ UNCHANGED <<inputVars, devices, wrapped, pass, storage_map, rewritten,
                 first, probe>>

\* DeviceAwareVisitExpr_(CallNode), after the arguments were visited: the
\* retraction loop, and the return to the caller
Retract ==
  /\ pc = "visit"
  /\ stack # << >>
  /\ ~AtArgument
  /\ storage_scope_' =
       EraseAll(storage_scope_, Retracted(Top.node, consumer_storage_scopes_))
  /\ visit_counter_' = visit_counter_ \cup {Top.node}
  /\ Returned(SubSeq(stack, 1, Len(stack) - 1))
  /\ UNCHANGED <<inputVars, devices, wrapped, pass,
                 primitive_supports_texture_, consumer_storage_scopes_,
                 args_to_vars_, storage_map, failed, rewritten, first, probe>>

\* StorageInfo::LegalizeProducerStorage
LegalizeProducerStorage ==
  /\ pc = "legalize"
  /\ IF \E p \in DOMAIN consumer_storage_scopes_ :
          HasMixedStorageOutputs(storage_scope_, p)
       THEN /\ failed' = "Mixed output storage scopes are not currently supported"
            /\ pc' = "aborted"
            /\ UNCHANGED storage_scope_
       ELSE /\ storage_scope_' = Legalized(storage_scope_, consumer_storage_scopes_)
            /\ pc' = "map"
            /\ UNCHANGED failed
  /\ UNCHANGED <<inputVars, devices, wrapped, pass, stack, visit_counter_,
                 primitive_supports_texture_, consumer_storage_scopes_,
                 args_to_vars_, storage_map, rewritten, first, probe>>

\* GetStorageMap after legalization: the copy of storage_scope_, the inputs
\* filled with "global", the vars of the primitive functions
GetStorageMap ==
  /\ pc = "map"
  /\ storage_map' =
       WithVars(Completed(storage_scope_, consumer_storage_scopes_), args_to_vars_)
  /\ pc' = "rewrite"
  /\ UNCHANGED <<inputVars, devices, wrapped, pass, analysisVars, failed,
                 rewritten, first, probe>>


\* ------------------------------------------------- RewriteVDStorageScopes
\* What the rewriter returns for a node: the virtual device the node carries
\* afterwards, whether the node was replaced by a new node, and whether an
\* on_device annotation was put around it.
Kept(n) == [vd |-> devices[n], fresh |-> FALSE, on_device |-> FALSE]

WithScope(vd, scope) ==
  VirtualDevice(vd.device_type, vd.virtual_device_id, vd.target, scope)

\* RewriteVDStorageScopes::VisitExpr_(const VarNode*)
RewriteVar(map, vn) ==
  IF Has(map, vn) /\ map[vn][1] # GlobalStr
    THEN [vd |-> WithScope(devices[vn], map[vn][1]),
          fresh |-> TRUE, on_device |-> FALSE]
    ELSE Kept(vn)

\* RewriteVDStorageScopes::VisitExpr_(const ConstantNode*)
RewriteConstant(map, vn) ==
  IF Has(map, vn)
    THEN [vd |-> WithScope(devices[vn], map[vn][1]),
          fresh |-> TRUE, on_device |-> TRUE]
    ELSE Kept(vn)

\* The memory scope RewriteVDStorageScopes::DeviceAwareVisitExpr_ chooses
CallMemoryScope(map, call_node) ==
  IF Has(map, call_node)
    THEN map[call_node][1]
    ELSE IF devices[call_node].memory_scope # EmptyStr
      THEN devices[call_node].memory_scope
      ELSE EmptyStr

\* RewriteVDStorageScopes::DeviceAwareVisitExpr_(const CallNode*)
RewriteCall(map, call_node) ==
  LET memory_scope == CallMemoryScope(map, call_node)
  IN IF memory_scope # EmptyStr
       THEN [vd |-> WithScope(devices[call_node], memory_scope),
             fresh |-> FALSE, on_device |-> TRUE]
       ELSE Kept(call_node)

\* RewriteVDStorageScopes::Rewrite, node by node
RewriteNode(map, n) ==
  IF n[1] = "param" THEN RewriteVar(map, n)
  ELSE IF n[1] = "body" THEN RewriteCall(map, n)
  ELSE IF N(n).kind = "Var" THEN RewriteVar(map, n)
  ELSE IF N(n).kind = "Constant" THEN RewriteConstant(map, n)
  ELSE RewriteCall(map, n)

\* A faulty variant of SkipsRewrite: the rewriter always runs.
SkipsRewriteMut(map) == FALSE

\* if (storage_scope.size()) ... else return expr;
SkipsRewrite(map) == DOMAIN map = {}

\* AnnotateMemoryScopeExpr, from the returned map on. Rewrite is
\* Downcast<Function>(Mutate(expr)): when the expression is not a Function
\* the cast of the mutated expression fails.
AnnotateMemoryScopeExpr ==
  /\ pc = "rewrite"
  /\ IF SkipsRewrite(storage_map)
       THEN /\ rewritten' = [n \in AllIds |-> Kept(n)]
            /\ pc' = "done"
            /\ UNCHANGED failed
       ELSE IF top_is_function
         THEN /\ rewritten' = [n \in AllIds |-> RewriteNode(storage_map, n)]
              /\ pc' = "done"
              /\ UNCHANGED failed
         ELSE /\ failed' = "Downcast<Function> failed"
              /\ pc' = "aborted"
              /\ UNCHANGED rewritten
  /\ UNCHANGED <<inputVars, devices, wrapped, pass, analysisVars, storage_map,
                 first, probe>>

Next ==
  \/ CollectStorageInfo
  \/ VisitExprTop
  \/ VisitMemo
  \/ VisitLeaf
  \/ VisitCall
  \/ Retract
  \/ LegalizeProducerStorage
  \/ GetStorageMap
  \/ AnnotateMemoryScopeExpr

Spec == Init /\ [][Next]_vars


\* ----------------------------------------------------------------- claims
IsTexture(scope) == Find(scope, TextureTag) = 0
HasTexture(scopes) == \E i \in 1..Len(scopes) : IsTexture(scopes[i])
Collected == pc \in {"rewrite", "done"} /\ failed = ""

\* (a) the capability matcher accepted the operator producing the node
MatcherAccepted(e) ==
  /\ IsPrimitiveCall(e)
  /\ N(e).body_calls # << >>
  /\ SupportsTextureStorage(N(e).body_calls[Len(N(e).body_calls)])

\* (b) every recorded consumer demand of the node is a texture scope and the
\* shape of the node passes the fit test
DemandedAndFits(e) ==
  /\ Has(consumer_storage_scopes_, e)
  /\ \A i \in 1..Len(consumer_storage_scopes_[e]) :
       IsTexture(consumer_storage_scopes_[e][i])
  /\ TypeOf(e).tensor
  /\ Scope(TypeOf(e).shape, devices[e]) # GlobalStr

Justified(e) == MatcherAccepted(e) \/ DemandedAndFits(e)

\* C1: Conservativeness. In the map GetStorageMap returns, a node carries a
\* texture scope only if the capability matcher accepted the operator that
\* produces it, or all its recorded consumer demands are texture scopes and
\* its own shape passes the fit test; a formal parameter carries a texture
\* scope only as the copy of the scope of such an argument bound to it.
C1_Conservative ==
  Collected =>
    \A e \in DOMAIN storage_map :
      HasTexture(storage_map[e]) =>
        IF e[1] = "param"
          THEN \E a \in BoundTo(args_to_vars_, e) :
                 /\ Has(storage_map, a)
                 /\ storage_map[a] = storage_map[e]
                 /\ Justified(a)
          ELSE Justified(e)

\* C1 witness: the analysis ended with a texture scope on a leaf that only
\* its consumers put there, and on a formal parameter.
C1_Witness ==
  /\ pc = "done"
  /\ \E e \in DOMAIN storage_map :
       /\ ~IsCall(e) /\ IsTop(e)
       /\ HasTexture(storage_map[e])
  /\ \E v \in DOMAIN storage_map : v[1] = "param" /\ HasTexture(storage_map[v])

Uniform(scopes) == \A i \in 1..Len(scopes) : scopes[i] = scopes[1]

\* C2: Uniformity. In every state of the analysis and in the final map all
\* scope entries of one producer are the same string, and neither of the two
\* "Mixed output storage scopes" assertions fires.
C2_Uniform ==
  /\ \A p \in DOMAIN storage_scope_ : Uniform(storage_scope_[p])
  /\ \A p \in DOMAIN storage_map : Uniform(storage_map[p])
  /\ failed # "Mixed output storage scopes are not currently supported"

\* C2 witness: a call with a tuple result went through the call visit (with
\* arguments, so the assertion was evaluated), legalization and the final map.
C2_Witness ==
  /\ pc = "done"
  /\ \E p \in DOMAIN storage_map :
       /\ Len(storage_map[p]) > 1
       /\ IsCall(p)
       /\ N(p).args # << >>
       /\ Has(consumer_storage_scopes_, p)

\* The original statement of C3: every node that is not in the final scope
\* map comes back as it was.
C3_Original ==
  pc = "done" =>
    \A n \in AllIds : ~Has(storage_map, n) => rewritten[n] = Kept(n)

\* The calls the rewriter wraps although the map does not mention them
KeepsOwnScope(n) ==
  /\ ~SkipsRewrite(storage_map)
  /\ IsCall(n) \/ n[1] = "body"
  /\ devices[n].memory_scope # EmptyStr
  /\ rewritten[n] = [vd |-> devices[n], fresh |-> FALSE, on_device |-> TRUE]

\* C3 (amended): Frame of the rewrite. A node that is not in the final scope
\* map comes back as it was, except a call whose resolved virtual device
\* already has a memory scope: the rewriter wraps it in an annotation with
\* that same virtual device. When the map is empty nothing at all changes.
C3_Frame ==
  pc = "done" =>
    /\ \A n \in AllIds :
         ~Has(storage_map, n) => (rewritten[n] = Kept(n) \/ KeepsOwnScope(n))
    /\ DOMAIN storage_map = {} => \A n \in AllIds : rewritten[n] = Kept(n)

\* C3 witness: the rewriter ran with a map that mentions some nodes and not
\* others; of the latter one came back as it was and one, a call with a
\* memory scope of its own, came back wrapped.
C3_Witness ==
  /\ pc = "done"
  /\ \E n \in TopIds : ~Has(storage_map, n) /\ rewritten[n] = Kept(n)
  /\ \E n \in TopIds : Has(storage_map, n) /\ rewritten[n] # Kept(n)
  /\ \E n \in TopIds : ~Has(storage_map, n) /\ KeepsOwnScope(n)


\* ------------------------------------------- the pure functions, alone
\* Shapes and virtual devices handed to Scope: tensors of 4 to 6 dimensions
\* of 1..MaxDim each, on no device, on the adreno target without the
\* texture_spatial_limit attribute, and with it.
RECURSIVE ShapesOfRank(_)
ShapesOfRank(r) ==
  IF r = 0
    THEN {<< >>}
    ELSE {Append(sh, d) : <<sh, d>> \in ShapesOfRank(r - 1) \X (1..MaxDim)}

ProbeShapes == ShapesOfRank(4) \cup ShapesOfRank(5) \cup ShapesOfRank(6)

ProbeDevices ==
  {FullyUnconstrained}
    \cup {VirtualDevice("opencl", 0, AdrenoTarget(l), EmptyStr) : l \in {0, 3, 5, 17}}

\* The scope strings of the program: "global", "global.texture" with and
\* without a layout tag, and the empty scope of an unconstrained device.
ScopeStrings ==
  { EmptyStr, GlobalStr, TextureTag,
    TextureTag \o DashStr \o NhwcStr, TextureTag \o DashStr \o WeightStr }

RECURSIVE ListsUpTo(_)
ListsUpTo(n) ==
  IF n = 0
    THEN {<< >>}
    ELSE ListsUpTo(n - 1)
           \cup {Append(l, x) : <<l, x>> \in {q \in ListsUpTo(n - 1) \X ScopeStrings :
                                                Len(q[1]) = n - 1}}

SingleVar == [x \in {1} |-> Leaf("Var", FlatShape)]

PureInit ==
  /\ graph = SingleVar
  /\ top_is_function = FALSE
  /\ devices = [n \in AllIds |-> FullyUnconstrained]
  /\ wrapped = {}
  /\ pass = 0
  /\ pc = "pure"
  /\ stack = << >>
  /\ visit_counter_ = {}
  /\ primitive_supports_texture_ = FALSE
  /\ storage_scope_ = EmptyMap
  /\ consumer_storage_scopes_ = EmptyMap
  /\ args_to_vars_ = EmptyMap
  /\ storage_map = EmptyMap
  /\ failed = ""
  /\ rewritten = NoResult
  /\ first = NoResult
  /\ \/ \E sh \in ProbeShapes, vd \in ProbeDevices :
          probe = [Idle EXCEPT !.fn = "Scope", !.shape = sh, !.vd = vd]
     \/ \E l \in ListsUpTo(MaxDemand) :
          probe = [Idle EXCEPT !.fn = "ConsumerScopes", !.list = l]

mainVars ==
  <<graph, top_is_function, devices, wrapped, pass, pc, stack, visit_counter_,
    primitive_supports_texture_, storage_scope_, consumer_storage_scopes_,
    args_to_vars_, storage_map, failed, rewritten, first>>

\* Scope(shape, vd) is called
CallScope ==
  /\ probe.fn = "Scope"
  /\ ~probe.done
  /\ probe' = [probe EXCEPT !.scope = Scope(probe.shape, probe.vd), !.done = TRUE]
  /\ UNCHANGED mainVars

\* GetConsumerScope and CanConsumeTextures are called on one list
CallConsumerScopes ==
  /\ probe.fn = "ConsumerScopes"
  /\ ~probe.done
  /\ probe' = [probe EXCEPT !.scope = GetConsumerScope(probe.list),
                            !.can = CanConsumeTextures(probe.list),
                            !.done = TRUE]
  /\ UNCHANGED mainVars

PureNext == CallScope \/ CallConsumerScopes

PureSpec == PureInit /\ [][PureNext]_vars

ScopeCalled == probe.fn = "Scope" /\ probe.done

\* C5: Scope returns "global" for every 5-D shape whose last dimension is
\* not 4, for every shape that has not 5 dimensions, and for every shape on
\* a fully unconstrained device, whatever the other dimensions and the limit.
C5_ScopeGlobal ==
  (/\ ScopeCalled
   /\ \/ Len(probe.shape) # 5
      \/ probe.shape[5] # 4
      \/ probe.vd = FullyUnconstrained) => probe.scope = GlobalStr

\* C5 witness: Scope was called on a 5-D shape on the adreno device whose
\* every reshape is below the limit and whose last dimension is not 4.
C5_Witness ==
  /\ ScopeCalled
  /\ probe.vd # FullyUnconstrained
  /\ probe.vd.target.texture_spatial_limit = 0
  /\ Len(probe.shape) = 5
  /\ probe.shape[5] = 3

\* The three reshapes of a 5-D shape, in the order no-suffix, nhwc, weight
Candidates(shape) ==
  << [rows |-> shape[1] * shape[2] * shape[3], cols |-> shape[4], label |-> EmptyStr],
     [rows |-> shape[1] * shape[2], cols |-> shape[3] * shape[4], label |-> NhwcStr],
     [rows |-> shape[1], cols |-> shape[2] * shape[3] * shape[4], label |-> WeightStr] >>

Eligible(shape, limit) ==
  {i \in 1..3 : Candidates(shape)[i].rows < limit /\ Candidates(shape)[i].cols < limit}

CandDiff(shape, i) == AbsDiff(Candidates(shape)[i].rows, Candidates(shape)[i].cols)

\* The eligible reshape of minimum |rows - cols|, the later one on a tie
Winner(shape, limit) ==
  CHOOSE i \in Eligible(shape, limit) :
    \A j \in Eligible(shape, limit) :
      \/ CandDiff(shape, i) < CandDiff(shape, j)
      \/ CandDiff(shape, i) = CandDiff(shape, j) /\ j <= i

LimitOf(vd) ==
  IF vd.target.texture_spatial_limit = 0 THEN 16384 ELSE vd.target.texture_spatial_limit

\* C6: on a constrained device and a 5-D shape [a0,a1,a2,a3,4], Scope is
\* "global" when no reshape has both sides strictly below the limit, and
\* otherwise "global.texture" with the label of the eligible reshape of
\* minimum |rows - cols|, the later of no-suffix, nhwc, weight on a tie.
C6_ScopeChoice ==
  (/\ ScopeCalled
   /\ probe.vd # FullyUnconstrained
   /\ Len(probe.shape) = 5
   /\ probe.shape[5] = 4) =>
    IF Eligible(probe.shape, LimitOf(probe.vd)) = {}
      THEN probe.scope = GlobalStr
      ELSE LET label == Candidates(probe.shape)[Winner(probe.shape, LimitOf(probe.vd))].label
           IN probe.scope =
                IF label = EmptyStr THEN TextureTag ELSE TextureTag \o DashStr \o label

\* C6 witness: Scope was called on a shape with an exact tie of the minimum
\* between the first and the second reshape, the third being over the limit.
C6_Witness ==
  /\ ScopeCalled
  /\ probe.vd # FullyUnconstrained
  /\ Len(probe.shape) = 5
  /\ probe.shape[5] = 4
  /\ Eligible(probe.shape, LimitOf(probe.vd)) = {1, 2}
  /\ CandDiff(probe.shape, 1) = CandDiff(probe.shape, 2)
  /\ probe.scope = TextureTag \o DashStr \o NhwcStr

ConsumerScopesCalled == probe.fn = "ConsumerScopes" /\ probe.done

Contains(s, tag) == \E i \in 1..Len(s) : \E j \in i..Len(s) : SubSeq(s, i, j) = tag

\* C10: GetConsumerScope returns "global" when the list is empty or an entry
\* does not contain "global.texture", and "global.texture" exactly when the
\* list is not empty and every entry contains it; CanConsumeTextures is true
\* exactly when an entry carries the tag; so a texture result of
\* GetConsumerScope implies CanConsumeTextures.
C10_Demand ==
  ConsumerScopesCalled =>
    LET l == probe.list
        all == l # << >> /\ \A i \in 1..Len(l) : Contains(l[i], TextureTag)
        any == \E i \in 1..Len(l) : Contains(l[i], TextureTag)
    IN /\ probe.scope = (IF all THEN TextureTag ELSE GlobalStr)
       /\ probe.can = any
       /\ probe.scope = TextureTag => probe.can

\* C10 witness: the two functions were called on a list that mixes a texture
\* entry with a "global" entry.
C10_Witness ==
  /\ ConsumerScopesCalled
  /\ Len(probe.list) = 2
  /\ probe.list[1] = TextureTag \o DashStr \o NhwcStr
  /\ probe.list[2] = GlobalStr
  /\ probe.can
  /\ probe.scope = GlobalStr


\* ------------------------------------------------------------- scenarios
ConvCall(n) ==
  /\ n \in TopIds
  /\ IsPrimitiveCall(n)
  /\ N(n).body_calls = <<Conv2DAttrs("NCHW4c", "OIHW4o")>>
  /\ N(n).tensor
  /\ N(n).shape = <<1, 4, 8, 8, 4>>
  /\ devices[n] # FullyUnconstrained
  /\ devices[n].target.texture_spatial_limit = 0

OnlyLeaves(ns) == \A n \in ns : ~IsCall(n)

\* Scenario A: the graph is one convolution call; its arguments are leaves.
ScenarioA == ConvCall(Node(1)) /\ OnlyLeaves(TopIds \ {Node(1)})

\* The original statement of C7: the scope of the call is "global.texture-nhwc".
C7_Original ==
  (Collected /\ ScenarioA) =>
    storage_map[Node(1)] = <<TextureTag \o DashStr \o NhwcStr>>

\* C7 (amended): Scenario A. For a graph of one convolution call with
\* data_layout NCHW4c, kernel_layout OIHW4o, output shape [1,4,8,8,4], a
\* constrained device and the default limit 16384, the capability matcher
\* accepts and the scope of the call in the final map is "global.texture".
C7_ScenarioA ==
  (Collected /\ ScenarioA) =>
    /\ MatcherAccepted(Node(1))
    /\ Has(storage_map, Node(1))
    /\ storage_map[Node(1)] = <<TextureTag>>

\* C7 witness: the pass ended on a Scenario A graph whose call has arguments.
C7_Witness == pc = "done" /\ ScenarioA /\ Len(N(Node(1)).args) = 2

\* Scenario B: the convolution call of Scenario A is the only argument of a
\* call into a primitive function whose operator the matcher rejects.
ScenarioB ==
  /\ Node(2) \in TopIds
  /\ IsPrimitiveCall(Node(1))
  /\ ~MatcherAccepted(Node(1))
  /\ N(Node(1)).args = <<Node(2)>>
  /\ ConvCall(Node(2))
  /\ OnlyLeaves(TopIds \ {Node(1), Node(2)})

\* The original statement of C8: the final map records the convolution with
\* "global", and every bound formal parameter with "global".
C8_Original ==
  (Collected /\ ScenarioB) =>
    /\ Has(storage_map, Node(2))
    /\ storage_map[Node(2)] = <<GlobalStr>>
    /\ \A v \in ParamIds :
         BoundTo(args_to_vars_, v) # {} =>
           Has(storage_map, v) /\ storage_map[v] = <<GlobalStr>>

\* C8 (amended): Scenario B. The final map has no entry for the convolution
\* or for the body of its subgraph: the texture scope is retracted and, the
\* only demand being "global", nothing is filled in. The formal parameter of
\* the rejected consumer is not bound and gets no scope; a formal parameter
\* of the convolution gets the scope of its argument, when that has one.
C8_ScenarioB ==
  (Collected /\ ScenarioB) =>
    /\ ~Has(storage_map, Node(2))
    /\ ~Has(storage_map, Body(Node(2)))
    /\ consumer_storage_scopes_[Node(2)] = <<GlobalStr>>
    /\ ~Has(storage_map, Param(Node(1), 1))
    /\ \A j \in 1..Len(N(Node(2)).args) :
         LET a == N(Node(2)).args[j]
         IN IF Has(storage_map, a)
              THEN storage_map[Param(Node(2), j)] = storage_map[a]
              ELSE ~Has(storage_map, Param(Node(2), j))

\* C8 witness: the pass ended on a Scenario B graph whose convolution has an
\* argument.
C8_Witness ==
  /\ pc = "done"
  /\ ScenarioB
  /\ N(Node(2)).args = <<Node(3)>>
  /\ Has(storage_map, Param(Node(2), 1))

\* Scenario C: a Constant of shape [1,1,1,1,4] with two recorded demands,
\* one a texture scope and one not.
ScenarioC(l) ==
  /\ l \in TopIds
  /\ N(l).kind = "Constant"
  /\ N(l).shape = <<1, 1, 1, 1, 4>>
  /\ Has(consumer_storage_scopes_, l)
  /\ Len(consumer_storage_scopes_[l]) = 2
  /\ \E i \in 1..2 : IsTexture(consumer_storage_scopes_[l][i])
  /\ \E i \in 1..2 : ~IsTexture(consumer_storage_scopes_[l][i])

\* C9: Scenario C. Such a Constant has unified demand "global", is in the
\* final map with exactly "global" and, when the rewriter has run, is
\* rewritten into an annotated copy with scope "global", in whichever order
\* the two consumers are found.
C9_ScenarioC ==
  \A l \in TopIds :
    /\ (Collected /\ ScenarioC(l)) =>
         /\ GetConsumerScope(consumer_storage_scopes_[l]) = GlobalStr
         /\ storage_map[l] = <<GlobalStr>>
    /\ (pc = "done" /\ ScenarioC(l)) =>
         rewritten[l] = [vd |-> WithScope(devices[l], GlobalStr),
                         fresh |-> TRUE, on_device |-> TRUE]

\* C9 witness: the pass ended on a graph where the Constant was visited with
\* only the texture demand recorded, before the second consumer was found.
C9_Witness ==
  /\ pc = "done"
  /\ ScenarioC(Node(3))
  /\ N(Node(1)).args = <<Node(3), Node(2)>>
  /\ consumer_storage_scopes_[Node(3)] = <<TextureTag, GlobalStr>>


\* --------------------------------------------- the pass on its own output
\* The pass is applied to the graph the first run returned: every node now
\* resolves to the virtual device the rewriter gave it, and a call or
\* Constant the rewriter annotated stands inside its on_device call, which
\* is what the consumers now hold as their argument. The visitor enters an
\* on_device call by visiting its body.
Rerun ==
  /\ pc = "done"
  /\ pass = 1
  /\ failed = ""
  /\ pass' = 2
  /\ first' = rewritten
  /\ devices' = [n \in AllIds |-> rewritten[n].vd]
  /\ wrapped' = {n \in TopIds : rewritten[n].on_device}
  /\ pc' = "begin"
  /\ stack' = << >>
  /\ visit_counter_' = {}
  /\ primitive_supports_texture_' = FALSE
  /\ storage_scope_' = EmptyMap
  /\ consumer_storage_scopes_' = EmptyMap
  /\ args_to_vars_' = EmptyMap
  /\ storage_map' = EmptyMap
  /\ rewritten' = NoResult
  /\ UNCHANGED <<inputVars, failed, probe>>

TwiceNext == Next \/ Rerun

TwiceSpec == Init /\ [][TwiceNext]_vars

\* C4: Idempotence. The pass applied to its own output returns a graph equal
\* to that output: the second run ends, and leaves every node with the
\* virtual device, and so the storage scope, the first run gave it.
C4_Idempotent ==
  (pass = 2 /\ pc \in {"done", "aborted"}) =>
    /\ pc = "done"
    /\ \A n \in AllIds : rewritten[n].vd = first[n].vd

\* C4 witness: the second run ended on the output of a first run that had
\* annotated a call, and chose a different scope for an annotated call.
C4_Witness ==
  /\ pass = 2
  /\ pc = "done"
  /\ \E n \in TopIds :
       /\ IsCall(n)
       /\ first[n].on_device
       /\ rewritten[n].vd.memory_scope # first[n].vd.memory_scope

\* ------------------------------------------------------ demand recording
\* The call visit of c has recorded its demand: c is being visited or was.
Visited(c) ==
  c \in visit_counter_ \/ \E k \in 1..Len(stack) : stack[k].node = c

\* The visited calls into a primitive function that take e as an argument
ConsumersOf(e) ==
  {c \in TopIds : /\ IsPrimitiveCall(c)
                  /\ Visited(c)
                  /\ \E i \in 1..Len(CallArgs(c)) : CallArgs(c)[i] = e}

DemandList(e) ==
  IF Has(consumer_storage_scopes_, e) THEN consumer_storage_scopes_[e] ELSE << >>

CountOf(list, s) == Cardinality({i \in 1..Len(list) : list[i] = s})

\* The scope the call visit assigned to the call is a texture scope
AssignedTexture(c) == MatcherAccepted(c) /\ HasTexture(CallScopes(c))

\* The original statement of C11: the entry is "global.texture" if the call
\* was assigned a texture scope and "global" otherwise.
C11_Original ==
  (pass = 1 /\ pc \in {"visit", "legalize", "map", "rewrite", "done"}) =>
    \A e \in TopIds :
      /\ CountOf(DemandList(e), TextureTag) =
           Cardinality({c \in ConsumersOf(e) : AssignedTexture(c)})
      /\ CountOf(DemandList(e), GlobalStr) =
           Cardinality({c \in ConsumersOf(e) : ~AssignedTexture(c)})

\* C11 (amended): Demand recording. A visited call into a primitive function
\* has appended one entry for each of its arguments: "global.texture" if the
\* call has an entry in storage_scope_, that is if the capability matcher
\* accepted its primitive - also when the scope computed for the call is
\* "global" - and "global" if it has none. Other calls append nothing.
C11_DemandRecording ==
  (pass = 1 /\ pc \in {"visit", "legalize", "map", "rewrite", "done"}) =>
    \A e \in TopIds :
      /\ Len(DemandList(e)) = Cardinality(ConsumersOf(e))
      /\ CountOf(DemandList(e), TextureTag) =
           Cardinality({c \in ConsumersOf(e) : MatcherAccepted(c)})
      /\ CountOf(DemandList(e), GlobalStr) =
           Cardinality({c \in ConsumersOf(e) : ~MatcherAccepted(c)})

\* C11 witness: the analysis ended on a graph where an accepted call whose
\* shape does not fit, and a rejected call, each recorded demand.
C11_Witness ==
  /\ Collected
  /\ \E c \in TopIds :
       /\ MatcherAccepted(c)
       /\ N(c).tensor
       /\ CallScopes(c) = <<GlobalStr>>
       /\ CallArgs(c) # << >>
       /\ DemandList(CallArgs(c)[1]) = <<TextureTag>>
  /\ \E c \in TopIds :
       /\ IsPrimitiveCall(c)
       /\ ~MatcherAccepted(c)
       /\ CallArgs(c) # << >>
       /\ GlobalStr \in {DemandList(CallArgs(c)[1])[i] :
                           i \in 1..Len(DemandList(CallArgs(c)[1]))}

\* -------------------------------------------------------------- leaf rule
IsLeaf(e) == e \in TopIds /\ ~IsCall(e)

\* The shape of the leaf passes the fit test for its virtual device
Fits(e) == TypeOf(e).tensor /\ Scope(TypeOf(e).shape, devices[e]) # GlobalStr

AllTexture(list) == \A i \in 1..Len(list) : IsTexture(list[i])

\* What one visit of a leaf does, in terms of the demand recorded when the
\* leaf is visited.
LeafRuleStep ==
  LET expr == NodeOfExpr(Pending)
      d == GetConsumerScope(DemandList(expr))
  IN IF DemandList(expr) = << >>
       THEN storage_scope_' = storage_scope_
       ELSE /\ failed' = ""
            /\ \A e \in DOMAIN storage_scope_ : storage_scope_'[e] = storage_scope_[e]
            /\ IF IsTexture(d)
                 THEN IF Fits(expr)
                        THEN /\ Has(storage_scope_', expr)
                             /\ storage_scope_'[expr] =
                                  <<Scope(TypeOf(expr).shape, devices[expr])>>
                        ELSE ~Has(storage_scope_', expr)
                 ELSE /\ Has(storage_scope_', expr)
                      /\ storage_scope_'[expr] = <<d>>

\* What the analysis returns for the leaves
LeafResult ==
  Collected =>
    \A l \in {e \in TopIds : IsLeaf(e)} :
      LET dl == DemandList(l)
      IN IF dl = << >>
           THEN ~Has(storage_map, l)
           ELSE IF AllTexture(dl)
             THEN /\ Has(storage_map, l)
                  /\ \/ storage_map[l] = <<GlobalStr>>
                     \/ /\ Fits(l)
                        /\ storage_map[l] = <<Scope(TypeOf(l).shape, devices[l])>>
             ELSE IF \E i \in 1..Len(dl) : IsTexture(dl[i])
               THEN Has(storage_map, l) /\ storage_map[l] = <<GlobalStr>>
               ELSE ~Has(storage_map, l)

C13_Retraction ==
  Collected =>
    \A e \in DOMAIN consumer_storage_scopes_ :
      ~AllTexture(consumer_storage_scopes_[e]) =>
        ~(Has(storage_map, e) /\ HasTexture(storage_map[e]))

\* C13 witness: the analysis ended on a graph where a call that fits was
\* visited, and given its texture scope, when only the texture demand of
\* its first consumer was recorded; the second consumer, visited later,
\* demands "global".
C13_Witness ==
  /\ Collected
  /\ pass = 1
  /\ Len(graph) = 3
  /\ N(Node(1)).args = <<Node(3), Node(2)>>
  /\ N(Node(2)).kind = "Call"
  /\ N(Node(2)).args = <<Node(3)>>
  /\ MatcherAccepted(Node(3))
  /\ HasTexture(CallScopes(Node(3)))
  /\ DemandList(Node(3)) = <<TextureTag, GlobalStr>>
  /\ Has(storage_map, Node(3))
  /\ storage_map[Node(3)] = <<GlobalStr>>

====
